---------------------------- MODULE Spec2Model ----------------------------
(***************************************************************************)
(* Model of the rig-extraction tool: the outliner helpers of util.py       *)
(* (root finding, typed listing, hierarchy pruning) and the three          *)
(* pipeline stages of main.py (extract_clean_bone, extract_clean_mesh,     *)
(* transfer_weight) acting on a Maya scene.                                *)
(*                                                                         *)
(* The scene is a DAG forest: nodes are numbered 1..n in DAG order (a      *)
(* parent has a smaller number than its children, siblings are listed in   *)
(* increasing order), every node has a type and a flag telling whether     *)
(* cmds.listConnections(node, type='dagPose') is non-empty.  Meshes are    *)
(* shape names; skin clusters hold a geometry list.                        *)
(***************************************************************************)
EXTENDS Integers, Sequences, FiniteSets, TLC

VARIABLES
    dag,            \* the joint/transform hierarchy: [nodes, parent]
    ntype,          \* node -> "joint" | "transform" | "mesh"
    conn,           \* node -> BOOLEAN: has a dagPose connection
    ret,            \* last query call of util.py and what it returned
    call,           \* last prune call: arguments, tree before, effects
    prev,           \* the prune call before the last one
    pc,             \* position of the pipeline run
    runs,           \* pipeline runs started in this process
    jnt_bind_roots, \* main.py: extract_clean_bone's bind-root list
    grp,            \* clean_joint_group and the duplicates below it
    bone,           \* extract_clean_bone: roots duplicated, nodes cleaned, the
                    \* exception that left it, the call that raised first
    meshes,         \* shape names cmds.ls(type='mesh') returns
    geometry,       \* skin cluster -> its geometry list
    mesh_sources,   \* main.py module-level list
    mesh_targets,   \* main.py module-level list
    mesh_grp,       \* clean_mesh_group: the duplicated mesh transforms
    xfer            \* effects of transfer_weight: binds, copies, merge, raised

vars == <<dag, ntype, conn, ret, call, prev, pc, runs, jnt_bind_roots, grp,
          bone, meshes, geometry, mesh_sources, mesh_targets, mesh_grp, xfer>>

treeVars == <<dag, ntype, conn>>
queryVars == <<ret>>
pruneVars == <<call, prev>>
boneVars == <<jnt_bind_roots, grp, bone>>
meshVars == <<meshes, geometry, mesh_sources, mesh_targets, mesh_grp, xfer>>
pipeVars == <<pc, runs>>

---------------------------------------------------------------------------
(* Bounds *)

TreeNodes == 3
BoneNodes == 3
NumMeshes == 2
MaxRuns == 2

(* Python's None: what cmds.listRelatives returns when there is nothing *)
None == 0

(* type_specified=None, the default of get_root_node *)
NoType == "None"

NodeTypes == {"joint", "transform"}

---------------------------------------------------------------------------
(* The scene graph service: queries *)

RECURSIVE DagOrder(_)
DagOrder(S) ==
    IF S = {} THEN <<>>
    ELSE LET m == CHOOSE x \in S : \A y \in S : x <= y
         IN  <<m>> \o DagOrder(S \ {m})

Range(s) == {s[i] : i \in 1..Len(s)}

(* cmds.listRelatives(obj, children=1): the children in DAG order, <<>> for None *)
listRelatives_children(t, obj) ==
    DagOrder({c \in t.nodes : t.parent[c] = obj})

(* cmds.listRelatives(obj, parent=1): the parent, None for a top-level node *)
listRelatives_parent(t, obj) == t.parent[obj]

(* cmds.listRelatives(obj, ad=1): all descendants, {} standing for None *)
RECURSIVE listRelatives_ad(_, _)
listRelatives_ad(t, obj) ==
    LET kids == {c \in t.nodes : t.parent[c] = obj}
    IN  kids \cup UNION {listRelatives_ad(t, c) : c \in kids}

(* cmds.objectType(obj, isType=ty) *)
objectType(obj, ty) == ntype[obj] = ty

(* cmds.listConnections(obj, type='dagPose') is non-empty *)
listConnections(obj) == conn[obj]

---------------------------------------------------------------------------
(* util.py: get_root_node *)

RECURSIVE get_root_node_walk(_, _, _, _)
get_root_node_walk(t, obj, root, type_specified) ==
    IF listRelatives_parent(t, obj) = None THEN root
    ELSE LET parent == listRelatives_parent(t, obj)
         IN  IF type_specified = NoType
             THEN get_root_node_walk(t, parent, root, type_specified)
             ELSE get_root_node_walk(t, parent,
                      IF objectType(parent, type_specified) THEN parent ELSE root,
                      type_specified)

get_root_node(t, obj, type_specified) ==
    LET root == IF type_specified = NoType THEN obj
                ELSE IF objectType(obj, type_specified) THEN obj ELSE None
    IN  get_root_node_walk(t, obj, root, type_specified)

---------------------------------------------------------------------------
(* util.py: get_hierarchy_of_type *)

RECURSIVE get_hierarchy_of_type(_, _, _)
RECURSIVE get_hierarchy_of_type_children(_, _, _, _)
get_hierarchy_of_type_children(t, children, i, type_specified) ==
    IF i > Len(children) THEN <<>>
    ELSE get_hierarchy_of_type(t, children[i], type_specified)
         \o get_hierarchy_of_type_children(t, children, i + 1, type_specified)

get_hierarchy_of_type(t, root, type_specified) ==
    LET children == listRelatives_children(t, root)
    IN  IF children = <<>>
        THEN IF objectType(root, type_specified) THEN <<root>> ELSE <<>>
        ELSE get_hierarchy_of_type_children(t, children, 1, type_specified)

---------------------------------------------------------------------------
(* The scene graph service: mutations.  A working scene w carries the      *)
(* tree, the nodes the service refuses to delete or re-parent (locked,     *)
(* live history), the count of re-parents and deletes done, and the        *)
(* exception raised so far ("" when none).                                 *)

Work(t, refuse) ==
    [nodes |-> t.nodes, parent |-> t.parent, refuse |-> refuse,
     reparents |-> 0, deletes |-> 0, raised |-> ""]

TreeOf(w) == [nodes |-> w.nodes, parent |-> w.parent]

(* cmds.delete(obj): removes obj and everything below it *)
cmds_delete(w, obj) ==
    IF w.raised # "" THEN w
    ELSE IF obj \in w.refuse THEN [w EXCEPT !.raised = "RuntimeError"]
    ELSE LET gone == {obj} \cup listRelatives_ad(w, obj)
             left == w.nodes \ gone
         IN  [w EXCEPT !.nodes = left,
                       !.parent = [n \in left |-> w.parent[n]],
                       !.deletes = w.deletes + 1]

(* cmds.parent(child, new_parent): None as the new parent is not an object *)
cmds_parent(w, child, new_parent) ==
    IF w.raised # "" THEN w
    ELSE IF new_parent = None THEN [w EXCEPT !.raised = "TypeError"]
    ELSE IF child \in w.refuse THEN [w EXCEPT !.raised = "RuntimeError"]
    ELSE [w EXCEPT !.parent[child] = new_parent,
                   !.reparents = w.reparents + 1]

---------------------------------------------------------------------------
(* util.py: delete_hierarchy_except_type / delete_hierarchy_except_node.   *)
(* Both run the same recursion; keep is the set of nodes their test        *)
(* (objectType(.., isType=type) / listConnections(.., type=type)) accepts. *)

(* the recursion without the re-parent of lines 79-81: children stay put *)
ReparentChild_Skipped(w, root_obj, child, keep) == w

(* lines 79-81 / 111-113: the child of a node that fails the test moves up *)
ReparentChild(w, root_obj, child, keep) ==
    IF root_obj \notin keep
    THEN cmds_parent(w, child, listRelatives_parent(w, root_obj))
    ELSE w

(* lines 73-74, 85-86 / 105-106, 117-118: a node that fails the test goes *)
DeleteUnlessKept(w, root_obj, keep) ==
    IF root_obj \notin keep THEN cmds_delete(w, root_obj) ELSE w

RECURSIVE PruneObj(_, _, _)
RECURSIVE PruneChildren(_, _, _, _, _)
PruneChildren(w, root_obj, children, i, keep) ==
    IF i > Len(children) \/ w.raised # "" THEN w
    ELSE LET moved == ReparentChild(w, root_obj, children[i], keep)
             done == IF moved.raised # "" THEN moved
                     ELSE PruneObj(moved, children[i], keep)
         IN  PruneChildren(done, root_obj, children, i + 1, keep)

PruneObj(w, root_obj, keep) ==
    IF w.raised # "" THEN w
    ELSE IF root_obj \notin w.nodes THEN [w EXCEPT !.raised = "ValueError"]
    ELSE LET children == listRelatives_children(w, root_obj)
         IN  IF children = <<>>
             THEN DeleteUnlessKept(w, root_obj, keep)
             ELSE DeleteUnlessKept(
                      PruneChildren(w, root_obj, children, 1, keep),
                      root_obj, keep)

RECURSIVE PruneRoots(_, _, _, _)
PruneRoots(w, roots, i, keep) ==
    IF i > Len(roots) THEN w
    ELSE PruneRoots(PruneObj(w, roots[i], keep), roots, i + 1, keep)

delete_hierarchy_except_type(w, roots, type_specified) ==
    PruneRoots(w, roots, 1, {n \in DOMAIN ntype : ntype[n] = type_specified})

delete_hierarchy_except_node(w, roots) ==
    PruneRoots(w, roots, 1, {n \in DOMAIN conn : conn[n]})

---------------------------------------------------------------------------
(* util.py: delete_hierarchy_shape, as extract_clean_bone calls it (one    *)
(* root).  listRelatives(root, ad=1) is None for a root without            *)
(* descendants; what cmds.ls(None, shapes=1) then does is the service's    *)
(* choice, ls_none: it raises ("TypeError") or lists nothing ("None").     *)

delete_hierarchy_shape(w, root, ls_none) ==
    LET nodes == listRelatives_ad(w, root)
        shapes == {n \in nodes : ntype[n] = "mesh"}
    IN  IF w.raised # "" THEN w
        ELSE IF nodes = {}
        THEN IF ls_none = "TypeError" THEN [w EXCEPT !.raised = "TypeError"]
             ELSE w
        ELSE IF shapes = {} THEN w
        ELSE IF shapes \cap w.refuse # {}
        THEN [w EXCEPT !.raised = "RuntimeError"]
        ELSE LET left == w.nodes \ shapes
             IN  [w EXCEPT !.nodes = left,
                           !.parent = [n \in left |-> w.parent[n]],
                           !.deletes = w.deletes + 1]

---------------------------------------------------------------------------
(* main.py: extract_clean_bone *)

(* the node that stands for clean_joint_group in the tree of duplicates *)
GroupNode == BoneNodes + 1

(* lines 19-24: the topmost joint of every joint, each once *)
RECURSIVE jnt_roots_from(_, _, _, _)
jnt_roots_from(t, jnts, i, acc) ==
    IF i > Len(jnts) THEN acc
    ELSE LET jnt_root == get_root_node(t, jnts[i], "joint")
         IN  jnt_roots_from(t, jnts, i + 1,
                 IF jnt_root \in Range(acc) THEN acc ELSE Append(acc, jnt_root))

jnt_roots(t) ==
    jnt_roots_from(t, DagOrder({n \in t.nodes : ntype[n] = "joint"}), 1, <<>>)

(* lines 29-32: the root and everything cmds.listRelatives(root, ad=1) lists *)
jnt_chain(t, jnt_root) == {jnt_root} \cup listRelatives_ad(t, jnt_root)

(* lines 34-37: the test that puts a root in the bind-root list *)
chain_is_bound(t, jnt_root) ==
    \E jnt \in jnt_chain(t, jnt_root) : listConnections(jnt)

(* lines 27-37 *)
bind_roots_of(t) == SelectSeq(jnt_roots(t), LAMBDA r : chain_is_bound(t, r))

(* lines 42-43: cmds.duplicate(jnt_root, ic=0, rc=1) parented under the group; *)
(* a duplicate carries the number of the node it copies                       *)
duplicate_under_group(w, t, jnt_root) ==
    LET copy == jnt_chain(t, jnt_root)
        all == w.nodes \cup copy
    IN  [w EXCEPT !.nodes = all,
                  !.parent = [n \in all |->
                                 IF n = jnt_root THEN GroupNode
                                 ELSE IF n \in copy THEN t.parent[n]
                                 ELSE w.parent[n]]]

(* lines 42-47: one turn of the loop over the bind roots *)
BoneStep(st, t, jnt_root, ls_none) ==
    LET dup == duplicate_under_group(st.w, t, jnt_root)
        shaped == delete_hierarchy_shape(dup, jnt_root, ls_none)
        pruned == delete_hierarchy_except_type(shaped, <<jnt_root>>, "joint")
    IN  [w |-> pruned,
         duplicated |-> Append(st.duplicated, jnt_root),
         at |-> IF st.at # "" THEN st.at
                ELSE IF shaped.raised # "" THEN "delete_hierarchy_shape"
                ELSE IF pruned.raised # "" THEN "delete_hierarchy_except_type"
                ELSE ""]

(* a loop that logs the failure of one root and goes on with the next *)
RECURSIVE BoneLoop_SkipFailed(_, _, _, _, _)
BoneLoop_SkipFailed(st, t, roots, i, ls_none) ==
    IF i > Len(roots) THEN st
    ELSE LET next == BoneStep(st, t, roots[i], ls_none)
         IN  BoneLoop_SkipFailed([next EXCEPT !.w.raised = ""],
                                 t, roots, i + 1, ls_none)

(* lines 41-47: no handler, an exception leaves the loop and the function *)
RECURSIVE BoneLoop(_, _, _, _, _)
BoneLoop(st, t, roots, i, ls_none) ==
    IF i > Len(roots) \/ st.w.raised # "" THEN st
    ELSE BoneLoop(BoneStep(st, t, roots[i], ls_none), t, roots, i + 1, ls_none)

(* lines 40-52: the group, the loop, then the clean-up of every node       *)
(* cmds.listRelatives(jnt_grp, ad=1) lists; iterating None raises          *)
extract_clean_bone(t, refuse, ls_none) ==
    LET roots == bind_roots_of(t)
        empty == [nodes |-> {GroupNode}, parent |-> [n \in {GroupNode} |-> None]]
        looped == BoneLoop([w |-> Work(empty, refuse), duplicated |-> <<>>,
                            at |-> ""], t, roots, 1, ls_none)
        below == listRelatives_ad(looped.w, GroupNode)
    IN  [jnt_bind_roots |-> roots,
         grp |-> TreeOf(looped.w),
         duplicated |-> looped.duplicated,
         cleaned |-> IF looped.w.raised = "" THEN below ELSE {},
         raised |-> IF looped.w.raised # "" THEN looped.w.raised
                    ELSE IF below = {} THEN "TypeError" ELSE "",
         at |-> IF looped.at # "" THEN looped.at
                ELSE IF below = {} THEN "clean-up" ELSE ""]

---------------------------------------------------------------------------
(* Names.  A name is a sequence of parts, "bodyShapeOrig" being            *)
(* <<"body", "Shape", "Orig">>; Python's  'Orig' in name  looks for the    *)
(* part "Orig".                                                            *)

HasOrig(name) == \E k \in 1..Len(name) : name[k] = "Orig"

(* cmds.duplicate(.., rc=1) renames the copy and its shape with a number *)
DuplicateName(name) == Append(name, "1")

(* util.py: get_shape_from_transform(transform, check_unique_child=0),     *)
(* shapes being what cmds.listRelatives(transform, shapes=1) lists         *)
get_shape_from_transform(shapes) ==
    SelectSeq(shapes, LAMBDA shape : ~HasOrig(shape))

---------------------------------------------------------------------------
(* main.py: extract_clean_mesh *)

(* every mesh counts as a result mesh: the filter of line 58 left out *)
meshes_result_Unfiltered(ms) == ms

(* line 58 *)
meshes_result(ms) == {mesh \in ms : ~HasOrig(mesh)}

(* lines 61-64: the geometry of every cluster that has some *)
meshes_bind(geo) ==
    UNION {geo[c] : c \in {d \in DOMAIN geo : geo[d] # {}}}

(* line 68: the set the list mesh_sources is made from *)
bind_result_meshes(ms, geo) == meshes_bind(geo) \cap meshes_result(ms)

(* list(set): the elements in some order *)
Orderings(S) ==
    {q \in [1..Cardinality(S) -> S] : \A e \in S : \E i \in DOMAIN q : q[i] = e}

(* lines 72-82: the duplicate of one mesh, and the result shapes that      *)
(* get_shape_from_transform lists for it (none for an 'Orig' name)        *)
duplicate_mesh(mesh) ==
    LET shapes == <<DuplicateName(mesh)>>
    IN  [of |-> mesh, shapes |-> get_shape_from_transform(shapes)]

(* lines 70-82, for mesh_sources in the order list(set) gave them:        *)
(* mesh_sources is assigned, mesh_targets is appended to; the [0] of line *)
(* 81-82 raises IndexError on an empty list, after the duplicate was made *)
duplicate_sources(sources, targets) ==
    LET dups == [i \in 1..Len(sources) |-> duplicate_mesh(sources[i])]
        bad  == {i \in 1..Len(sources) : dups[i].shapes = <<>>}
        stop == IF bad = {} THEN Len(sources)
                ELSE CHOOSE i \in bad : \A j \in bad : i <= j
        done == IF bad = {} THEN stop ELSE stop - 1
    IN  [mesh_sources |-> sources,
         mesh_grp |-> [i \in 1..stop |->
                          [of |-> dups[i].of,
                           shape |-> IF dups[i].shapes = <<>>
                                     THEN DuplicateName(dups[i].of)
                                     ELSE dups[i].shapes[1]]],
         mesh_targets |-> targets \o [i \in 1..done |-> dups[i].shapes[1]],
         raised |-> IF bad = {} THEN "" ELSE "IndexError"]

(* lines 55-82: what extract_clean_mesh may leave, one outcome per order *)
extract_clean_mesh(ms, geo, targets) ==
    {duplicate_sources(sources, targets) :
        sources \in Orderings(bind_result_meshes(ms, geo))}

---------------------------------------------------------------------------
(* main.py: transfer_weight *)

Min(a, b) == IF a <= b THEN a ELSE b

(* the copy loop without the guard of line 95: pairs as far as both reach *)
copy_weights_Unguarded(sources, targets) ==
    [index \in 1..Min(Len(sources), Len(targets)) |->
        <<sources[index], targets[index]>>]

(* lines 95-100: one cmds.copySkinWeights per index, or none at all *)
copy_weights(sources, targets) ==
    IF Len(sources) = Len(targets)
    THEN [index \in 1..Len(targets) |-> <<sources[index], targets[index]>>]
    ELSE <<>>

UniteMesh == [of |-> <<"unite_mesh">>, shape |-> <<"unite_mesh", "Shape">>]

(* lines 87-111.  Iterating None (an empty clean_mesh_group) raises at     *)
(* line 89, binding to None (an empty clean_joint_group) at line 92.       *)
transfer_weight(joints, group, sources, targets) ==
    IF group = <<>>
    THEN [bound |-> {}, copies |-> <<>>, united |-> FALSE,
          raised |-> "TypeError", mesh_grp |-> group]
    ELSE IF joints = <<>>
    THEN [bound |-> {}, copies |-> <<>>, united |-> FALSE,
          raised |-> "TypeError", mesh_grp |-> group]
    ELSE [bound |-> {group[i].shape : i \in 1..Len(group)},
          copies |-> copy_weights(sources, targets),
          united |-> Len(group) > 1,
          raised |-> "",
          mesh_grp |-> IF Len(group) > 1 THEN <<UniteMesh>> ELSE group]

---------------------------------------------------------------------------
(* Scenes the helpers are called on, and the idle values of every variable *)

Forests(n) == {p \in [1..n -> 0..n] : \A i \in 1..n : p[i] < i}

NoRet == [fn |-> "", obj |-> None, type_specified |-> NoType,
          root |-> None, list |-> <<>>]

NoCall == [fn |-> "", root |-> None, keep |-> {},
           before |-> [nodes |-> {}, parent |-> <<>>],
           reparents |-> 0, deletes |-> 0, raised |-> ""]

NoBone == [duplicated |-> <<>>, cleaned |-> {}, raised |-> "", at |-> ""]

NoXfer == [bound |-> {}, copies |-> <<>>, united |-> FALSE, raised |-> ""]

IdleBone ==
    /\ jnt_bind_roots = <<>>
    /\ grp = [nodes |-> {}, parent |-> <<>>]
    /\ bone = NoBone

IdleMesh ==
    /\ meshes = {}
    /\ geometry = <<>>
    /\ mesh_sources = <<>>
    /\ mesh_targets = <<>>
    /\ mesh_grp = <<>>
    /\ xfer = NoXfer

InitTree ==
    /\ \E p \in Forests(TreeNodes) :
           dag = [nodes |-> 1..TreeNodes, parent |-> p]
    /\ ntype \in [1..TreeNodes -> NodeTypes]
    /\ conn \in [1..TreeNodes -> BOOLEAN]
    /\ ret = NoRet
    /\ call = NoCall
    /\ prev = NoCall
    /\ pc = "idle"
    /\ runs = 0
    /\ IdleBone
    /\ IdleMesh

---------------------------------------------------------------------------
(* Calls of the query helpers *)

GetRootNode(obj, type_specified) ==
    /\ obj \in dag.nodes
    /\ ret' = [fn |-> "get_root_node", obj |-> obj,
               type_specified |-> type_specified,
               root |-> get_root_node(dag, obj, type_specified),
               list |-> <<>>]
    /\ UNCHANGED <<treeVars, pruneVars, boneVars, meshVars, pipeVars>>

GetHierarchyOfType(root, type_specified) ==
    /\ root \in dag.nodes
    /\ ret' = [fn |-> "get_hierarchy_of_type", obj |-> root,
               type_specified |-> type_specified,
               root |-> None,
               list |-> get_hierarchy_of_type(dag, root, type_specified)]
    /\ UNCHANGED <<treeVars, pruneVars, boneVars, meshVars, pipeVars>>

NextQuery ==
    \/ \E obj \in 1..TreeNodes, ty \in NodeTypes \cup {NoType} :
           GetRootNode(obj, ty)
    \/ \E root \in 1..TreeNodes, ty \in NodeTypes :
           GetHierarchyOfType(root, ty)

SpecQuery == InitTree /\ [][NextQuery]_vars

---------------------------------------------------------------------------
(* Calls of the prune helpers: a first call on the scene, then a second   *)
(* one on what the first left.                                            *)

PruneCall(fn, root, keep, w) ==
    /\ prev = NoCall
    /\ dag' = TreeOf(w)
    /\ call' = [fn |-> fn, root |-> root, keep |-> keep, before |-> dag,
                reparents |-> w.reparents, deletes |-> w.deletes,
                raised |-> w.raised]
    /\ prev' = call
    /\ UNCHANGED <<ntype, conn, queryVars, boneVars, meshVars, pipeVars>>

DeleteHierarchyExceptType(root, type_specified) ==
    PruneCall("delete_hierarchy_except_type", root,
              {n \in DOMAIN ntype : ntype[n] = type_specified},
              delete_hierarchy_except_type(Work(dag, {}), <<root>>, type_specified))

DeleteHierarchyExceptNode(root) ==
    PruneCall("delete_hierarchy_except_node", root,
              {n \in DOMAIN conn : conn[n]},
              delete_hierarchy_except_node(Work(dag, {}), <<root>>))

NextPrune ==
    \/ \E root \in 1..TreeNodes, ty \in NodeTypes :
           DeleteHierarchyExceptType(root, ty)
    \/ \E root \in 1..TreeNodes : DeleteHierarchyExceptNode(root)

SpecPrune == InitTree /\ [][NextPrune]_vars

---------------------------------------------------------------------------
(* What the claims speak of, stated on the tree alone *)

RECURSIVE AncestorsOrSelf(_, _)
AncestorsOrSelf(t, n) ==
    IF t.parent[n] = None THEN {n}
    ELSE {n} \cup AncestorsOrSelf(t, t.parent[n])

RECURSIVE Depth(_, _)
Depth(t, n) == IF t.parent[n] = None THEN 0 ELSE 1 + Depth(t, t.parent[n])

Subtree(t, root) ==
    IF root \in t.nodes THEN {root} \cup listRelatives_ad(t, root) ELSE {}

(* the ancestor of n that has no parent *)
AbsoluteRoot(t, n) ==
    CHOOSE a \in AncestorsOrSelf(t, n) : t.parent[a] = None

(* the highest ancestor of n, n included, of type ty; None when there is none *)
HighestOfType(t, n, ty) ==
    LET match == {a \in AncestorsOrSelf(t, n) : ntype[a] = ty}
    IN  IF match = {} THEN None
        ELSE CHOOSE a \in match : \A b \in match : Depth(t, a) <= Depth(t, b)

(* the subtree of root in depth-first order, parents before children *)
RECURSIVE DepthFirst(_, _)
RECURSIVE DepthFirstEach(_, _, _)
DepthFirstEach(t, children, i) ==
    IF i > Len(children) THEN <<>>
    ELSE DepthFirst(t, children[i]) \o DepthFirstEach(t, children, i + 1)

DepthFirst(t, root) ==
    <<root>> \o DepthFirstEach(t, listRelatives_children(t, root), 1)

OfType(s, ty) == SelectSeq(s, LAMBDA n : ntype[n] = ty)

(* the nearest proper ancestor of n in tree t that still exists in tree u *)
RECURSIVE NearestSurviving(_, _, _)
NearestSurviving(t, u, n) ==
    LET p == t.parent[n]
    IN  IF p = None \/ p \in u.nodes THEN p ELSE NearestSurviving(t, u, p)

---------------------------------------------------------------------------
(* C7, as claimed: get_root_node returns, with a type filter, the highest  *)
(* ancestor of the node (the node included) of that type, None when there  *)
(* is none, and with no filter the absolute root of the node's tree.       *)
C7_RootOfAsClaimed ==
    ret.fn = "get_root_node" =>
        ret.root = IF ret.type_specified = NoType
                   THEN AbsoluteRoot(dag, ret.obj)
                   ELSE HighestOfType(dag, ret.obj, ret.type_specified)

(* what the code returns for C7: the filtered result is as claimed, the    *)
(* unfiltered one is the node itself                                       *)
C7_CodeReturns ==
    ret.fn = "get_root_node" =>
        ret.root = IF ret.type_specified = NoType THEN ret.obj
                   ELSE HighestOfType(dag, ret.obj, ret.type_specified)

(* C8, as claimed: get_hierarchy_of_type returns exactly the nodes of the  *)
(* subtree of root whose type matches, root and inner nodes as well as     *)
(* leaves, each once, in depth-first order.                                *)
C8_SubtreeOfTypeAsClaimed ==
    ret.fn = "get_hierarchy_of_type" =>
        ret.list = OfType(DepthFirst(dag, ret.obj), ret.type_specified)

(* what the code returns for C8: the matching leaves of the subtree only *)
C8_CodeReturns ==
    ret.fn = "get_hierarchy_of_type" =>
        ret.list = SelectSeq(OfType(DepthFirst(dag, ret.obj), ret.type_specified),
                             LAMBDA n : listRelatives_children(dag, n) = <<>>)

---------------------------------------------------------------------------
KeptBelow(c) == Subtree(c.before, c.root) \cap c.keep

(* C3, as claimed: every node that satisfies keep and was reachable from   *)
(* root before the call exists and is reachable from root after it, at the *)
(* same or a shallower depth.                                              *)
C3_ReachableFromRootAsClaimed ==
    call.fn # "" =>
        \A n \in KeptBelow(call) :
            /\ n \in dag.nodes
            /\ n \in Subtree(dag, call.root)
            /\ Depth(dag, n) <= Depth(call.before, n)

(* C3, amended: every node that satisfies keep and was below root before   *)
(* the call still exists after it, at the same or a shallower depth, below *)
(* root when root still exists and below root's former parent when root    *)
(* was excised; only nodes failing keep are deleted, and every surviving   *)
(* node of the subtree hangs under its nearest surviving former ancestor.  *)
C3_PrunePreservesKept ==
    call.fn # "" =>
        /\ \A n \in KeptBelow(call) :
               /\ n \in dag.nodes
               /\ Depth(dag, n) <= Depth(call.before, n)
               /\ call.root \in dag.nodes => n \in Subtree(dag, call.root)
               /\ call.root \notin dag.nodes =>
                      n \in Subtree(dag, call.before.parent[call.root])
        /\ (call.before.nodes \ dag.nodes)
               \subseteq (Subtree(call.before, call.root) \ call.keep)
        /\ \A n \in Subtree(call.before, call.root) \cap dag.nodes :
               dag.parent[n] = NearestSurviving(call.before, dag, n)

(* a root that fails keep was excised and a kept node that hung below it  *)
(* now hangs, one level up, below the root's former parent                 *)
C3_Witness ==
    /\ call.fn # ""
    /\ call.root \in call.before.nodes
    /\ call.root \notin dag.nodes
    /\ call.reparents > 0
    /\ \E n \in KeptBelow(call) :
           /\ n \in Subtree(dag, call.before.parent[call.root])
           /\ Depth(dag, n) < Depth(call.before, n)

(* C4, as claimed: after one call no node failing keep is left in the      *)
(* subtree of root, and a second call with the same root and keep does no  *)
(* re-parent, no delete, and leaves the tree as it was.                    *)
C4_IdempotentAsClaimed ==
    call.fn # "" =>
        /\ \A n \in Subtree(call.before, call.root) \ call.keep :
               n \notin dag.nodes
        /\ (prev.fn = call.fn /\ prev.root = call.root /\ prev.keep = call.keep)
               => /\ call.reparents = 0
                  /\ call.deletes = 0
                  /\ dag = call.before

---------------------------------------------------------------------------
(* Scenes extract_clean_bone runs on: shapes are leaves under a node *)

BoneTypes == {"joint", "transform", "mesh"}

WellFormed(p, ty, n) ==
    \A i \in 1..n :
        /\ ty[i] = "mesh" => p[i] # None
        /\ p[i] # None => ty[p[i]] # "mesh"

InitBone ==
    /\ \E p \in Forests(BoneNodes) :
           dag = [nodes |-> 1..BoneNodes, parent |-> p]
    /\ ntype \in [1..BoneNodes -> BoneTypes]
    /\ WellFormed(dag.parent, ntype, BoneNodes)
    /\ conn \in [1..BoneNodes -> BOOLEAN]
    /\ ret = NoRet
    /\ call = NoCall
    /\ prev = NoCall
    /\ pc = "idle"
    /\ runs = 0
    /\ IdleBone
    /\ IdleMesh

(* A run starts here.  The caller has removed the clean groups of an       *)
(* earlier run; the service refuses to delete or re-parent at most one     *)
(* node, refused (None: it refuses nothing).                               *)
ExtractCleanBone(refused, ls_none) ==
    /\ pc \in {"idle", "failed", "transferred"}
    /\ runs < MaxRuns
    /\ runs' = runs + 1
    /\ \E r \in {extract_clean_bone(dag, {refused} \ {None}, ls_none)} :
           /\ jnt_bind_roots' = r.jnt_bind_roots
           /\ grp' = r.grp
           /\ bone' = [duplicated |-> r.duplicated, cleaned |-> r.cleaned,
                       raised |-> r.raised, at |-> r.at]
           /\ pc' = IF r.raised = "" THEN "boned" ELSE "failed"
    /\ UNCHANGED <<treeVars, queryVars, pruneVars, meshVars>>

NextBone ==
    \E refused \in 0..BoneNodes, ls_none \in {"TypeError", "None"} :
        ExtractCleanBone(refused, ls_none)

SpecBone == InitBone /\ [][NextBone]_vars

---------------------------------------------------------------------------
(* the topmost joints of the scene, one per joint chain *)
ChainRoots(t) ==
    {HighestOfType(t, j, "joint") : j \in {n \in t.nodes : ntype[n] = "joint"}}

(* some joint of the chain has a dagPose connection *)
JointOfChainBound(t, r) ==
    \E j \in Subtree(t, r) : ntype[j] = "joint" /\ conn[j]

(* C1, as claimed: the root of a joint chain is in the bind-root list if   *)
(* and only if some joint of the chain has a dagPose connection, and each  *)
(* selected root is listed once.                                           *)
C1_BindRootsAsClaimed ==
    pc # "idle" =>
        /\ \A r \in ChainRoots(dag) :
               r \in Range(jnt_bind_roots) <=> JointOfChainBound(dag, r)
        /\ Range(jnt_bind_roots) \subseteq ChainRoots(dag)
        /\ Cardinality(Range(jnt_bind_roots)) = Len(jnt_bind_roots)

RefusedInPrune == bone.at = "delete_hierarchy_except_type"

C10_UnboundChainsAsClaimed ==
    pc # "idle" =>
        /\ \A r \in ChainRoots(dag) :
               ~JointOfChainBound(dag, r) =>
                   jnt_chain(dag, r) \cap grp.nodes = {}
        /\ (\A r \in ChainRoots(dag) : ~JointOfChainBound(dag, r)) =>
               /\ bone.raised = ""
               /\ grp.nodes = {GroupNode}

---------------------------------------------------------------------------
(* The pipeline: runs of extract_clean_bone, extract_clean_mesh and        *)
(* transfer_weight in one process, on one source scene.                    *)

BaseNames == <<"body", "head", "hand", "foot">>

MeshShape(i) == <<BaseNames[i], "Shape">>
OrigShape(i) == <<BaseNames[i], "Shape", "Orig">>
NurbsShape == <<"curve", "Shape">>

(* per base name: no mesh, a result mesh, or an intermediate one *)
MeshSets ==
    {UNION {v[i] : i \in 1..NumMeshes} :
        v \in [1..NumMeshes -> {{}} \cup {{MeshShape(i)} : i \in 1..NumMeshes}
                                    \cup {{OrigShape(i)} : i \in 1..NumMeshes}]}

Clusters == {"skinCluster1", "skinCluster2"}

(* a two-joint chain bound at its tip, and two joints never bound *)
PipeJointScenes ==
    {[parent |-> <<0, 1>>, ntype |-> <<"joint", "joint">>,
      conn |-> <<FALSE, TRUE>>],
     [parent |-> <<0, 0>>, ntype |-> <<"joint", "joint">>,
      conn |-> <<FALSE, FALSE>>]}

InitPipe ==
    /\ \E sc \in PipeJointScenes :
           /\ dag = [nodes |-> DOMAIN sc.parent, parent |-> sc.parent]
           /\ ntype = sc.ntype
           /\ conn = sc.conn
    /\ meshes \in MeshSets
    /\ geometry \in [Clusters -> SUBSET (meshes \cup {NurbsShape})]
    /\ ret = NoRet
    /\ call = NoCall
    /\ prev = NoCall
    /\ pc = "idle"
    /\ runs = 0
    /\ IdleBone
    /\ mesh_sources = <<>>
    /\ mesh_targets = <<>>
    /\ mesh_grp = <<>>
    /\ xfer = NoXfer

ExtractCleanMesh ==
    /\ pc = "boned"
    /\ \E r \in extract_clean_mesh(meshes, geometry, mesh_targets) :
           /\ mesh_sources' = r.mesh_sources
           /\ mesh_targets' = r.mesh_targets
           /\ mesh_grp' = r.mesh_grp
           /\ xfer' = [NoXfer EXCEPT !.raised = r.raised]
           /\ pc' = IF r.raised = "" THEN "meshed" ELSE "failed"
    /\ UNCHANGED <<treeVars, queryVars, pruneVars, boneVars, meshes, geometry,
                   runs>>

TransferWeight ==
    /\ pc = "meshed"
    /\ \E r \in {transfer_weight(listRelatives_children(grp, GroupNode),
                                  mesh_grp, mesh_sources, mesh_targets)} :
           /\ xfer' = [bound |-> r.bound, copies |-> r.copies,
                       united |-> r.united, raised |-> r.raised]
           /\ mesh_grp' = r.mesh_grp
           /\ pc' = IF r.raised = "" THEN "transferred" ELSE "failed"
    /\ UNCHANGED <<treeVars, queryVars, pruneVars, boneVars, meshes, geometry,
                   mesh_sources, mesh_targets, runs>>

NextPipe ==
    \/ \E refused \in dag.nodes \cup {None}, ls_none \in {"TypeError", "None"} :
           ExtractCleanBone(refused, ls_none)
    \/ ExtractCleanMesh
    \/ TransferWeight

SpecPipe == InitPipe /\ [][NextPipe]_vars

---------------------------------------------------------------------------
MeshesExtracted == pc \in {"meshed", "transferred"} \/ xfer.raised # ""

InSomeCluster(mesh) == \E c \in Clusters : mesh \in geometry[c]

(* C2: after extract_clean_mesh a mesh of the scene is in mesh_sources if  *)
(* and only if its name does not mark it 'Orig' and some skin cluster      *)
(* lists it as geometry; nothing else is in mesh_sources, and no mesh      *)
(* twice.                                                                  *)
C2_BindMeshes ==
    MeshesExtracted =>
        /\ \A mesh \in meshes :
               mesh \in Range(mesh_sources)
                   <=> (~HasOrig(mesh) /\ InSomeCluster(mesh))
        /\ Range(mesh_sources) \subseteq meshes
        /\ Cardinality(Range(mesh_sources)) = Len(mesh_sources)

(* a bound result mesh is taken while a bound 'Orig' mesh and a bound      *)
(* surface that is no mesh are left out                                    *)
C2_Witness ==
    /\ pc = "meshed"
    /\ \E mesh \in meshes : mesh \in Range(mesh_sources)
    /\ \E mesh \in meshes : HasOrig(mesh) /\ InSomeCluster(mesh)
    /\ InSomeCluster(NurbsShape)

(* C5, as claimed: whenever extract_clean_mesh has returned, in any run,   *)
(* the two lists have the same length and mesh_targets[i] is the shape of  *)
(* the duplicate made from mesh_sources[i].                                *)
C5_ListsAlignedAsClaimed ==
    pc = "meshed" =>
        /\ Len(mesh_sources) = Len(mesh_targets)
        /\ \A i \in 1..Len(mesh_sources) :
               /\ i <= Len(mesh_grp)
               /\ mesh_grp[i].of = mesh_sources[i]
               /\ mesh_targets[i] = mesh_grp[i].shape

TransferReturned == pc = "transferred" \/ xfer.raised # ""

(* C6: transfer_weight copies no weights at all when the lists differ in   *)
(* length, and otherwise copies once per index i, from mesh_sources[i] to  *)
(* mesh_targets[i]; a difference in length raises nothing.                 *)
C6_GuardedTransfer ==
    TransferReturned =>
        /\ Len(mesh_sources) # Len(mesh_targets) =>
               /\ xfer.copies = <<>>
               /\ xfer.raised = ""
        /\ Len(mesh_sources) = Len(mesh_targets) =>
               /\ Len(xfer.copies) = Len(mesh_sources)
               /\ \A i \in 1..Len(mesh_sources) :
                      xfer.copies[i] = <<mesh_sources[i], mesh_targets[i]>>

(* a transfer that met more targets than sources and copied nothing *)
C6_Witness ==
    /\ pc = "transferred"
    /\ Len(mesh_sources) >= 1
    /\ Len(mesh_targets) > Len(mesh_sources)
    /\ xfer.copies = <<>>
    /\ xfer.bound # {}

(* what the code does for C4: the second call changes nothing, and the     *)
(* first leaves a node failing keep only when it raised on a root that     *)
(* has no parent to move its children to                                   *)
C4_CodeDoes ==
    call.fn # "" =>
        /\ (\E n \in Subtree(call.before, call.root) \ call.keep : n \in dag.nodes)
               => /\ call.raised = "TypeError"
                  /\ call.before.parent[call.root] = None
                  /\ dag = call.before
        /\ (prev.fn = call.fn /\ prev.root = call.root /\ prev.keep = call.keep)
               => /\ call.reparents = 0
                  /\ call.deletes = 0
                  /\ dag = call.before

(* what the code does for C1: a root is selected when any node of its      *)
(* chain, joint or not, has a dagPose connection                           *)
C1_CodeSelects ==
    pc # "idle" =>
        /\ \A r \in ChainRoots(dag) :
               r \in Range(jnt_bind_roots)
                   <=> \E n \in Subtree(dag, r) : conn[n]
        /\ Range(jnt_bind_roots) \subseteq ChainRoots(dag)
        /\ Cardinality(Range(jnt_bind_roots)) = Len(jnt_bind_roots)

(* what the code does for C10: with no bind root the clean-up raises *)
C10_CodeDoes ==
    (pc # "idle" /\ jnt_bind_roots = <<>>) =>
        /\ bone.raised = "TypeError"
        /\ bone.at = "clean-up"
        /\ grp.nodes = {GroupNode}

(* what the code does for C5: mesh_targets holds the shapes of every run   *)
(* so far, the last Len(mesh_sources) of them being this run's             *)
C5_CodeDoes ==
    pc = "meshed" =>
        /\ Len(mesh_targets) >= Len(mesh_sources)
        /\ \A i \in 1..Len(mesh_sources) :
               mesh_targets[Len(mesh_targets) - Len(mesh_sources) + i]
                   = mesh_grp[i].shape

===========================================================================
